---- MODULE Spec2Model ----
(***************************************************************************)
(* scripts/generate-version-metadata.py: the generator of release.json,    *)
(* commits.json and index.html.  The program is sequential; every action   *)
(* below is one statement group of the script, in program order, and pc is *)
(* the position of the single thread of control.  git is the environment:  *)
(* `env` is the repository the script runs in, and GitRun is what a git    *)
(* invocation answers there.  Text is a sequence of one-character strings. *)
(* A file is the sequence of tokens json.dump or f.write put into it.       *)
(* Not modelled: failures of the file system (mkdir, open), which no        *)
(* property below is about, and the layout json.dump's indent adds.         *)
(***************************************************************************)
EXTENDS Integers, Sequences, FiniteSets, TLC

\* ---------------------------------------------------------------- bounds
MaxTagLen == 3
MaxCommits == 3
MaxCount == 2
MaxOutLen == 5
MaxRuns == 2
HashLen == 9
AbbrevLen == 4

\* ------------------------------------------------------ program constants
DefaultCount == 500
ShortLen == 7

\* ------------------------------------------------------------- characters
NUL == "NUL"
LF == "LF"
SP == "SP"

\* The characters str.strip() removes that occur in the model's texts.
Whitespace == {LF, SP}

Min(a, b) == IF a < b THEN a ELSE b

\* ------------------------------------------------------------ text helpers

\* str.strip(): drop the leading and the trailing whitespace, keep the inside.
Strip(s) ==
    LET keep == {i \in 1..Len(s) : s[i] \notin Whitespace}
    IN  IF keep = {} THEN <<>>
        ELSE LET first == CHOOSE i \in keep : \A j \in keep : i <= j
                 last == CHOOSE i \in keep : \A j \in keep : j <= i
             IN  SubSeq(s, first, last)

\* Position of the first occurrence of character c in s (0: none).
Find(s, c) ==
    LET at == {i \in 1..Len(s) : s[i] = c}
    IN  IF at = {} THEN 0 ELSE CHOOSE i \in at : \A j \in at : i <= j

\* str.split("\n"): the pieces between the separators; the empty text gives
\* one empty piece.
RECURSIVE Split(_, _)
Split(s, sep) ==
    LET p == Find(s, sep)
    IN  IF p = 0 THEN <<s>>
        ELSE <<SubSeq(s, 1, p - 1)>> \o Split(SubSeq(s, p + 1, Len(s)), sep)

\* Mutant: the line is split at its last delimiter (rsplit).
SplitOnce_AtLast(line) ==
    LET at == {i \in 1..Len(line) : line[i] = NUL}
        p == CHOOSE i \in at : \A j \in at : j <= i
    IN  [sha |-> SubSeq(line, 1, p - 1), subject |-> SubSeq(line, p + 1, Len(line))]

\* line.split("\x00", 1) of a line that holds the delimiter: the text before
\* the first delimiter and everything after it.
SplitOnce(line) ==
    LET p == Find(line, NUL)
    IN  [sha |-> SubSeq(line, 1, p - 1), subject |-> SubSeq(line, p + 1, Len(line))]

\* str.startswith("v")
StartsWithV(s) == Len(s) >= 1 /\ s[1] = "v"

\* Mutant: every leading "v" is removed (lstrip("v")).
RECURSIVE VersionOf_AllLeading(_)
VersionOf_AllLeading(tag) ==
    IF StartsWithV(tag) THEN VersionOf_AllLeading(Tail(tag)) ELSE tag

\* latest_tag[1:] if latest_tag.startswith("v") else latest_tag
VersionOf(tag) == IF StartsWithV(tag) THEN SubSeq(tag, 2, Len(tag)) ELSE tag

\* latest_commit[:7]
ShortOf(commit) == SubSeq(commit, 1, Min(ShortLen, Len(commit)))

\* ------------------------------------------------------------------- JSON
\* A JSON value: a string (a text), an object (a sequence of <<key, value>>
\* pairs, in insertion order) or an array (a sequence of values).
Str(chars) == [t |-> "str", v |-> chars]
Obj(pairs) == [t |-> "obj", v |-> pairs]
Arr(items) == [t |-> "arr", v |-> items]

\* json.dump(value, f, indent=2): the document as a sequence of tokens, keys in
\* insertion order (the indentation is layout only and is not modelled).
RECURSIVE JsonDump(_)
JsonDump(val) ==
    LET RECURSIVE Members(_, _)
        Members(items, i) ==
            IF i > Len(items) THEN <<>>
            ELSE (IF i > 1 THEN <<",">> ELSE <<>>)
                 \o (IF val.t = "obj"
                     THEN <<items[i][1], ":">> \o JsonDump(items[i][2])
                     ELSE JsonDump(items[i]))
                 \o Members(items, i + 1)
    IN  CASE val.t = "str" -> <<"\"">> \o val.v \o <<"\"">>
          [] val.t = "obj" -> <<"{">> \o Members(val.v, 1) \o <<"}">>
          [] val.t = "arr" -> <<"[">> \o Members(val.v, 1) \o <<"]">>

\* The download_urls dictionary: one f-string per platform, each with latest_tag.
DownloadUrls(tag) ==
    Obj(<< <<"darwin_amd64", Str(<<"https://github.com/tgruben-circuit/percy/releases/download/">> \o tag \o <<"/percy_darwin_amd64">>)>>,
           <<"darwin_arm64", Str(<<"https://github.com/tgruben-circuit/percy/releases/download/">> \o tag \o <<"/percy_darwin_arm64">>)>>,
           <<"linux_amd64", Str(<<"https://github.com/tgruben-circuit/percy/releases/download/">> \o tag \o <<"/percy_linux_amd64">>)>>,
           <<"linux_arm64", Str(<<"https://github.com/tgruben-circuit/percy/releases/download/">> \o tag \o <<"/percy_linux_arm64">>)>> >>)

\* The checksums_url f-string.
ChecksumsUrl(tag) ==
    Str(<<"https://github.com/tgruben-circuit/percy/releases/download/">> \o tag \o <<"/checksums.txt">>)

\* Mutant: the URLs are built from the stripped version, not from the tag.
ReleaseInfo_VersionInUrls(tag, version, short, commit, commit_time, published) ==
    Obj(<< <<"tag_name", Str(tag)>>,
           <<"version", Str(version)>>,
           <<"commit", Str(short)>>,
           <<"commit_full", Str(commit)>>,
           <<"commit_time", Str(commit_time)>>,
           <<"published_at", Str(published)>>,
           <<"download_urls", DownloadUrls(version)>>,
           <<"checksums_url", ChecksumsUrl(version)>> >>)

\* The release_info dictionary of generate_release_json.
ReleaseInfo(tag, version, short, commit, commit_time, published) ==
    Obj(<< <<"tag_name", Str(tag)>>,
           <<"version", Str(version)>>,
           <<"commit", Str(short)>>,
           <<"commit_full", Str(commit)>>,
           <<"commit_time", Str(commit_time)>>,
           <<"published_at", Str(published)>>,
           <<"download_urls", DownloadUrls(tag)>>,
           <<"checksums_url", ChecksumsUrl(tag)>> >>)

\* The html literal of generate_index_html, as one token.
IndexHtml == <<"<!DOCTYPE html> ... release.json ... commits.json ... </html>">>

\* ------------------------------------------------------------ environment
Hex == <<"1", "2", "3", "4", "5", "6", "7", "8", "9", "a", "b", "c", "d", "e", "f">>

\* The full hash of the n-th commit of the history (1 is the root commit).
FullHash(n) == [i \in 1..HashLen |-> IF i = 1 THEN "c" ELSE IF i = 2 THEN Hex[n] ELSE "0"]
\* %h: git's abbreviated hash.
AbbrevHash(n) == SubSeq(FullHash(n), 1, AbbrevLen)
\* %cI of the n-th commit, and the creation date of a tag on it.
CommitTime(n) == <<"T", Hex[n]>>
TagDate(n) == <<"D", Hex[n]>>

TagChars == {"v", "1"}
RECURSIVE TextsUpTo(_, _)
TextsUpTo(chars, n) ==
    IF n = 0 THEN {<<>>}
    ELSE LET shorter == TextsUpTo(chars, n - 1)
         IN  shorter \cup {Append(t, c) : t \in shorter, c \in chars}

\* Tag names: non-empty, without whitespace (git refuses such ref names).
Tags == TextsUpTo(TagChars, MaxTagLen) \ {<<>>}
NoTag == <<>>

\* Subject lines as git prints them with %s: one line, no NUL.
Subjects == {<<>>, <<"s", SP, "s">>}

\* The subjects of the commits reachable from HEAD, newest first; the commit
\* at position i is commit number Len - i + 1.
Histories ==
    UNION {[1..k -> Subjects] : k \in 1..MaxCommits}

GitCommands == {"describe", "rev-list", "show", "for-each-ref", "log"}

\* The repository the script runs in.  kind: git cannot be started at all, the
\* current directory is in no repository, the repository has commits but no
\* tag, or it has a tag (on its root commit).  damaged: a git command that
\* fails there with a non-zero status although the tag exists ("none": none).
Env(kind, tag, history, damaged) ==
    [kind |-> kind, tag |-> tag, history |-> history, damaged |-> damaged]

RepoEnvs ==
    {Env("git_missing", NoTag, <<>>, "none"), Env("not_a_repo", NoTag, <<>>, "none")}
    \cup {Env("no_tags", NoTag, h, "none") : h \in {[i \in 1..1 |-> <<>>]}}
    \cup {Env("tagged", t, h, d) : t \in Tags, h \in Histories,
                                   d \in (GitCommands \ {"describe"}) \cup {"none"}}

\* The lines git log prints for the history with the given count: one line
\* per commit, newest first, at most `n` of them, hash NUL subject.
LogLines(history, n) ==
    [i \in 1..Min(Len(history), n) |->
        AbbrevHash(Len(history) - i + 1) \o <<NUL>> \o history[i]]

\* Lines joined by line feeds, none after the last (--pretty=format:).
RECURSIVE JoinLines(_)
JoinLines(ls) ==
    IF ls = <<>> THEN <<>>
    ELSE IF Len(ls) = 1 THEN ls[1]
    ELSE ls[1] \o <<LF>> \o JoinLines(Tail(ls))

\* What running git with this subcommand and argument answers in repository e:
\* spawned (FALSE: the executable cannot be started, subprocess raises
\* FileNotFoundError), the return code and the standard output.
GitRun(e, cmd, arg) ==
    LET Ok(text) == [spawned |-> TRUE, rc |-> 0, out |-> text]
        Fail == [spawned |-> TRUE, rc |-> 128, out |-> <<>>]
    IN  CASE e.kind = "git_missing" -> [spawned |-> FALSE, rc |-> 127, out |-> <<>>]
          [] e.kind = "not_a_repo" -> Fail
          [] e.kind = "no_tags" ->
                IF cmd = "log" THEN Ok(JoinLines(LogLines(e.history, arg))) ELSE Fail
          [] e.kind = "tagged" ->
                CASE e.damaged = cmd -> Fail
                  [] cmd = "describe" -> Ok(e.tag \o <<LF>>)
                  [] cmd = "rev-list" ->
                        IF arg = e.tag THEN Ok(FullHash(1) \o <<LF>>) ELSE Fail
                  [] cmd = "show" ->
                        IF arg = FullHash(1) THEN Ok(CommitTime(1) \o <<LF>>) ELSE Fail
                  [] cmd = "for-each-ref" ->
                        IF arg = e.tag THEN Ok(TagDate(1) \o <<LF>>) ELSE Ok(<<>>)
                  [] cmd = "log" -> Ok(JoinLines(LogLines(e.history, arg)))

\* ------------------------------------------------------------------ state
VARIABLES
    env,                \* the repository the script runs in (never changes)
    count,              \* generate_commits_json's count argument
    caller,             \* who called the running function: "main", or a direct call
    pc,                 \* the position of the run
    run,                \* 1 for the first run of the tool, 2 for the next one
    dirExists,          \* whether output_dir exists
    files,              \* the files of output_dir
    prevFiles,          \* the files as they were when this run started
    stdout,             \* the lines this run printed to standard output
    stderr,             \* the lines this run printed to standard error
    status,             \* the exit status (-1 while the run is going)
    trace,              \* what this run did so far, in order
    latest_tag,         \* locals of generate_release_json
    latest_commit,
    latest_commit_time,
    published_at,
    output,             \* locals of generate_commits_json
    lines,
    commits

vars == <<env, count, caller, pc, run, dirExists, files, prevFiles, stdout, stderr,
          status, trace, latest_tag, latest_commit, latest_commit_time,
          published_at, output, lines, commits>>

releaseLocals == <<latest_tag, latest_commit, latest_commit_time, published_at>>
commitLocals == <<output, lines, commits>>
inputs == <<env, count, caller, run, prevFiles>>

FileNames == {"release.json", "commits.json", "index.html"}

Absent == [exists |-> FALSE, data |-> <<>>]
Stale == [exists |-> TRUE, data |-> <<"stale">>]

\* Mutant: the file is opened for appending.
WriteFile_Append(fs, name, data) ==
    [fs EXCEPT ![name] = [exists |-> TRUE, data |-> fs[name].data \o data]]

\* with open(output_path, "w") as f: f.write(data) -- the file is truncated,
\* then holds the data alone.
WriteFile(fs, name, data) == [fs EXCEPT ![name] = [exists |-> TRUE, data |-> data]]

NoTagsMsg == "ERROR: No tags found. Run this after creating a release."
Traceback(exc) == "Traceback (most recent call last): " \o exc

\* print(f"Generated {output_path}") and
\* print(f"Generated {output_path} with {len(commits)} commits") (n = -1: no count)
Generated(name, n) == [text |-> "Generated", file |-> name, n |-> n]

\* Mutant: the return code of git describe is not looked at.
DescribeFailed_Never(r) == FALSE

\* result.returncode != 0
DescribeFailed(r) == r.rc # 0

\* Mutant: the return code is not checked (subprocess.run without check).
CheckFailed_Never(r) == FALSE

\* subprocess.check_output raises CalledProcessError on a non-zero return code.
CheckFailed(r) == r.rc # 0

\* An exception nobody catches: the traceback goes to standard error and the
\* interpreter exits with status 1.
Raise(exc) ==
    /\ stderr' = Append(stderr, Traceback(exc))
    /\ status' = 1
    /\ pc' = "exited"

\* Mutant: the diagnostic is printed and the function returns to main.
ExitNoTags_Return ==
    /\ stderr' = Append(stderr, NoTagsMsg)
    /\ status' = status
    /\ pc' = "com_log"

\* sys.exit(1) after the diagnostic.
ExitNoTags ==
    /\ stderr' = Append(stderr, NoTagsMsg)
    /\ status' = 1
    /\ pc' = "exited"

\* ---------------------------------------------------------------- actions

\* main: output_dir from argv, output_dir.mkdir(parents=True, exist_ok=True).
MainStart ==
    /\ pc = "main"
    /\ dirExists' = TRUE
    /\ pc' = "rel_describe"
    /\ UNCHANGED <<inputs, files, stdout, stderr, status, trace, releaseLocals, commitLocals>>

\* generate_release_json: git describe --tags --abbrev=0, and the exit when it
\* returns a non-zero code.
RelDescribe ==
    /\ pc = "rel_describe"
    /\ LET r == GitRun(env, "describe", <<>>)
       IN  /\ trace' = trace \o <<"enter generate_release_json", "git describe">>
           /\ IF ~r.spawned
              THEN Raise("FileNotFoundError") /\ UNCHANGED latest_tag
              ELSE IF DescribeFailed(r)
              THEN ExitNoTags /\ UNCHANGED latest_tag
              ELSE /\ latest_tag' = Strip(r.out)
                   /\ pc' = "rel_revlist"
                   /\ UNCHANGED <<stderr, status>>
    /\ UNCHANGED <<inputs, dirExists, files, stdout, latest_commit, latest_commit_time,
                   published_at, commitLocals>>

\* subprocess.check_output(["git", cmd, ..., arg], text=True): the call returns
\* its standard output, or raises.
CheckOutput(cmd, arg, next) ==
    LET r == GitRun(env, cmd, arg)
    IN  /\ trace' = Append(trace, "git " \o cmd)
        /\ IF ~r.spawned THEN Raise("FileNotFoundError")
           ELSE IF CheckFailed(r) THEN Raise("CalledProcessError")
           ELSE /\ pc' = next
                /\ UNCHANGED <<stderr, status>>

\* Whether that call returns, and what.
Returns(cmd, arg) == GitRun(env, cmd, arg).spawned /\ ~CheckFailed(GitRun(env, cmd, arg))
Returned(cmd, arg) == GitRun(env, cmd, arg).out

\* latest_commit = check_output(git rev-list -n 1 latest_tag).strip()
RelRevList ==
    /\ pc = "rel_revlist"
    /\ CheckOutput("rev-list", latest_tag, "rel_show")
    /\ latest_commit' = IF Returns("rev-list", latest_tag)
                        THEN Strip(Returned("rev-list", latest_tag))
                        ELSE latest_commit
    /\ UNCHANGED <<inputs, dirExists, files, stdout, latest_tag, latest_commit_time,
                   published_at, commitLocals>>

\* latest_commit_time = check_output(git show -s --format=%cI latest_commit).strip()
RelShow ==
    /\ pc = "rel_show"
    /\ CheckOutput("show", latest_commit, "rel_foreachref")
    /\ latest_commit_time' = IF Returns("show", latest_commit)
                             THEN Strip(Returned("show", latest_commit))
                             ELSE latest_commit_time
    /\ UNCHANGED <<inputs, dirExists, files, stdout, latest_tag, latest_commit,
                   published_at, commitLocals>>

\* published_at = check_output(git for-each-ref ... refs/tags/latest_tag).strip()
RelForEachRef ==
    /\ pc = "rel_foreachref"
    /\ CheckOutput("for-each-ref", latest_tag, "rel_write")
    /\ published_at' = IF Returns("for-each-ref", latest_tag)
                       THEN Strip(Returned("for-each-ref", latest_tag))
                       ELSE published_at
    /\ UNCHANGED <<inputs, dirExists, files, stdout, latest_tag, latest_commit,
                   latest_commit_time, commitLocals>>

\* The release_info the script builds from its locals.
ReleaseInfoNow ==
    ReleaseInfo(latest_tag, VersionOf(latest_tag), ShortOf(latest_commit),
                latest_commit, latest_commit_time, published_at)

\* version, release_info, and json.dump of it into release.json.
RelWrite ==
    /\ pc = "rel_write"
    /\ files' = WriteFile(files, "release.json", JsonDump(ReleaseInfoNow))
    /\ trace' = Append(trace, "write release.json")
    /\ pc' = "rel_print"
    /\ UNCHANGED <<inputs, dirExists, stdout, stderr, status, releaseLocals, commitLocals>>

\* print(f"Generated {output_path}"), and the return to main.
RelPrint ==
    /\ pc = "rel_print"
    /\ stdout' = Append(stdout, Generated("release.json", -1))
    /\ trace' = Append(trace, "print release.json")
    /\ pc' = "com_log"
    /\ UNCHANGED <<inputs, dirExists, files, stderr, status, releaseLocals, commitLocals>>

\* Mutant: the count argument is ignored, the log is always cut at 500.
ComLog_DefaultCountOnly ==
    /\ pc = "com_log"
    /\ LET r == GitRun(env, "log", DefaultCount)
       IN  /\ trace' = trace \o <<"enter generate_commits_json", "git log">>
           /\ IF ~r.spawned THEN Raise("FileNotFoundError") /\ UNCHANGED output
              ELSE IF CheckFailed(r) THEN Raise("CalledProcessError") /\ UNCHANGED output
              ELSE /\ output' = r.out
                   /\ pc' = "com_split"
                   /\ UNCHANGED <<stderr, status>>
    /\ UNCHANGED <<inputs, dirExists, files, stdout, releaseLocals, lines, commits>>

\* generate_commits_json: output = check_output(git log ... -count HEAD)
ComLog ==
    /\ pc = "com_log"
    /\ LET r == GitRun(env, "log", count)
       IN  /\ trace' = trace \o <<"enter generate_commits_json", "git log">>
           /\ IF ~r.spawned THEN Raise("FileNotFoundError") /\ UNCHANGED output
              ELSE IF CheckFailed(r) THEN Raise("CalledProcessError") /\ UNCHANGED output
              ELSE /\ output' = r.out
                   /\ pc' = "com_split"
                   /\ UNCHANGED <<stderr, status>>
    /\ UNCHANGED <<inputs, dirExists, files, stdout, releaseLocals, lines, commits>>

\* commits = []; the list the for loop walks: output.strip().split("\n")
ComSplit ==
    /\ pc = "com_split"
    /\ commits' = <<>>
    /\ lines' = Split(Strip(output), LF)
    /\ pc' = "com_loop"
    /\ UNCHANGED <<inputs, dirExists, files, stdout, stderr, status, trace,
                   releaseLocals, output>>

\* if "\x00" in line
HasDelimiter(line) == Find(line, NUL) # 0

\* Mutant: no test for the delimiter; unpacking a line without it raises.
ComLine_NoGuard ==
    /\ pc = "com_loop"
    /\ lines # <<>>
    /\ IF HasDelimiter(Head(lines))
       THEN /\ commits' = Append(commits, SplitOnce(Head(lines)))
            /\ lines' = Tail(lines)
            /\ UNCHANGED <<pc, stderr, status>>
       ELSE /\ Raise("ValueError")
            /\ UNCHANGED <<lines, commits>>
    /\ UNCHANGED <<inputs, dirExists, files, stdout, trace, releaseLocals, output>>

\* One iteration of the for loop.
ComLine ==
    /\ pc = "com_loop"
    /\ lines # <<>>
    /\ commits' = IF HasDelimiter(Head(lines))
                  THEN Append(commits, SplitOnce(Head(lines)))
                  ELSE commits
    /\ lines' = Tail(lines)
    /\ UNCHANGED <<inputs, pc, dirExists, files, stdout, stderr, status, trace,
                   releaseLocals, output>>

\* The commits list as a JSON value: {"sha": sha, "subject": subject} each.
CommitsJson(cs) ==
    Arr([i \in 1..Len(cs) |->
            Obj(<< <<"sha", Str(cs[i].sha)>>, <<"subject", Str(cs[i].subject)>> >>)])

\* The loop is over: json.dump(commits) into commits.json.
ComWrite ==
    /\ pc = "com_loop"
    /\ lines = <<>>
    /\ files' = WriteFile(files, "commits.json", JsonDump(CommitsJson(commits)))
    /\ trace' = Append(trace, "write commits.json")
    /\ pc' = "com_print"
    /\ UNCHANGED <<inputs, dirExists, stdout, stderr, status, releaseLocals, commitLocals>>

\* print(f"Generated ... with {len(commits)} commits"), and the return: to main,
\* or to the caller of a direct call.
ComPrint ==
    /\ pc = "com_print"
    /\ stdout' = Append(stdout, Generated("commits.json", Len(commits)))
    /\ trace' = Append(trace, "print commits.json")
    /\ pc' = IF caller = "main" THEN "idx_write" ELSE "returned"
    /\ UNCHANGED <<inputs, dirExists, files, stderr, status, releaseLocals, commitLocals>>

\* generate_index_html: f.write(html) into index.html.
IdxWrite ==
    /\ pc = "idx_write"
    /\ files' = WriteFile(files, "index.html", IndexHtml)
    /\ trace' = trace \o <<"enter generate_index_html", "write index.html">>
    /\ pc' = "idx_print"
    /\ UNCHANGED <<inputs, dirExists, stdout, stderr, status, releaseLocals, commitLocals>>

\* print(f"Generated {output_path}"); main returns and the interpreter exits 0.
IdxPrint ==
    /\ pc = "idx_print"
    /\ stdout' = Append(stdout, Generated("index.html", -1))
    /\ trace' = Append(trace, "print index.html")
    /\ status' = 0
    /\ pc' = "exited"
    /\ UNCHANGED <<inputs, dirExists, files, stderr, releaseLocals, commitLocals>>

\* The tool is run again, on the same repository and output directory: a new
\* process, which finds the files the run before left.
Rerun ==
    /\ pc = "exited"
    /\ caller = "main"
    /\ run < MaxRuns
    /\ run' = run + 1
    /\ prevFiles' = files
    /\ pc' = "main"
    /\ status' = -1
    /\ stdout' = <<>>
    /\ stderr' = <<>>
    /\ trace' = <<>>
    /\ latest_tag' = <<>>
    /\ latest_commit' = <<>>
    /\ latest_commit_time' = <<>>
    /\ published_at' = <<>>
    /\ output' = <<>>
    /\ lines' = <<>>
    /\ commits' = <<>>
    /\ UNCHANGED <<env, count, caller, dirExists, files>>

\* ---------------------------------------------------------- specifications

\* The output directory before the first run: missing, empty, or holding the
\* three files of an earlier release.
InitialDirs ==
    { [exists |-> FALSE, files |-> [f \in FileNames |-> Absent]],
      [exists |-> TRUE, files |-> [f \in FileNames |-> Absent]],
      [exists |-> TRUE, files |-> [f \in FileNames |-> Stale]] }

FreshLocals ==
    /\ status = -1
    /\ stdout = <<>>
    /\ stderr = <<>>
    /\ latest_tag = <<>>
    /\ latest_commit = <<>>
    /\ latest_commit_time = <<>>
    /\ published_at = <<>>
    /\ lines = <<>>
    /\ commits = <<>>

\* The script run from the command line: main, with the default count.
Init ==
    /\ env \in RepoEnvs
    /\ count = DefaultCount
    /\ caller = "main"
    /\ pc = "main"
    /\ run = 1
    /\ \E d \in InitialDirs : dirExists = d.exists /\ files = d.files /\ prevFiles = d.files
    /\ trace = <<>>
    /\ output = <<>>
    /\ FreshLocals

Next ==
    \/ MainStart
    \/ RelDescribe
    \/ RelRevList
    \/ RelShow
    \/ RelForEachRef
    \/ RelWrite
    \/ RelPrint
    \/ ComLog
    \/ ComSplit
    \/ ComLine
    \/ ComWrite
    \/ ComPrint
    \/ IdxWrite
    \/ IdxPrint
    \/ Rerun

Spec == Init /\ [][Next]_vars

\* generate_commits_json(output_dir, count) called directly, with any count,
\* in a repository where git log works or fails.
Counts == (0..MaxCount) \cup {DefaultCount}

InitCommits ==
    /\ env \in {Env("tagged", <<"v", "1">>, h, d) : h \in Histories, d \in {"none", "log"}}
    /\ count \in Counts
    /\ caller = "direct"
    /\ pc = "com_log"
    /\ run = 1
    /\ \E d \in InitialDirs :
          d.exists /\ dirExists = d.exists /\ files = d.files /\ prevFiles = d.files
    /\ trace = <<>>
    /\ output = <<>>
    /\ FreshLocals

NextCommits ==
    \/ ComLog
    \/ ComSplit
    \/ ComLine
    \/ ComWrite
    \/ ComPrint

SpecCommits == InitCommits /\ [][NextCommits]_vars

\* The parsing of generate_commits_json on any text git log may have returned.
OutChars == {"a", NUL, LF, SP}
LogOutputs == TextsUpTo(OutChars, MaxOutLen)

InitParse ==
    /\ env = Env("tagged", <<"v", "1">>, [i \in 1..1 |-> <<>>], "none")
    /\ count = DefaultCount
    /\ caller = "direct"
    /\ pc = "com_split"
    /\ run = 1
    /\ dirExists = TRUE
    /\ files = [f \in FileNames |-> Absent]
    /\ prevFiles = files
    /\ trace = <<"enter generate_commits_json", "git log">>
    /\ output \in LogOutputs
    /\ FreshLocals

NextParse ==
    \/ ComSplit
    \/ ComLine
    \/ ComWrite
    \/ ComPrint

SpecParse == InitParse /\ [][NextParse]_vars

\* ------------------------------------------------------------- properties

\* Where event e first stands in the trace of this run (0: nowhere).
At(e) == Find(trace, e)
Happened(e) == At(e) # 0
Times(e) == Cardinality({i \in 1..Len(trace) : trace[i] = e})

\* The text of the string member `key` of a JSON document given as tokens: the
\* tokens between the quotes that follow the key and its colon.
StringField(data, key) ==
    LET k == Find(data, key)
        rest == SubSeq(data, k + 3, Len(data))
    IN  SubSeq(rest, 1, Find(rest, "\"") - 1)

\* The keys of the object member `key` of a JSON value.
MemberKeys(obj, key) ==
    LET i == CHOOSE j \in 1..Len(obj.v) : obj.v[j][1] = key
    IN  [j \in 1..Len(obj.v[i][2].v) |-> obj.v[i][2].v[j][1]]

ReleaseWritten == Happened("write release.json")
CommitsWritten == Happened("write commits.json")

\* C1: in a repository without any tag the run ends right after git describe,
\* with exit status 1 and the diagnostic on standard error; no other git query
\* was made, nothing was printed and release.json is as it was before the run.
C1_NoTagsIsFatal ==
    (env.kind = "no_tags" /\ pc \notin {"main", "rel_describe"}) =>
        /\ pc = "exited"
        /\ status = 1
        /\ stderr = <<NoTagsMsg>>
        /\ stdout = <<>>
        /\ trace = <<"enter generate_release_json", "git describe">>
        /\ files = prevFiles

C1_Witness ==
    /\ env.kind = "no_tags"
    /\ pc = "exited"
    /\ status = 1
    /\ prevFiles["release.json"] = Absent
    /\ files["release.json"] = Absent

\* C2: the three steps start at most once each and in the order release,
\* commits, index; a step starts only after the step before it printed its
\* confirmation; a confirmation is printed only after the step's file was
\* written; standard output holds exactly the confirmations printed; and after
\* the fatal exit of the release step the other two steps have not started and
\* commits.json and index.html are untouched.
StepOrder ==
    <<"enter generate_release_json", "write release.json", "print release.json",
      "enter generate_commits_json", "write commits.json", "print commits.json",
      "enter generate_index_html", "write index.html", "print index.html">>

C2_StepsInOrder ==
    /\ \A i \in 1..Len(StepOrder) : Times(StepOrder[i]) <= 1
    /\ \A i \in 2..Len(StepOrder) :
          Happened(StepOrder[i]) =>
              /\ Happened(StepOrder[i - 1])
              /\ At(StepOrder[i - 1]) < At(StepOrder[i])
    /\ Len(stdout) = Cardinality({f \in FileNames : Happened("print " \o f)})
    /\ \A i \in 1..Len(stdout) :
          /\ Happened("print " \o stdout[i].file)
          /\ files[stdout[i].file].exists
          /\ \A j \in 1..Len(stdout) :
                (i < j) => At("print " \o stdout[i].file) < At("print " \o stdout[j].file)
    /\ (NoTagsMsg \in {stderr[i] : i \in 1..Len(stderr)}) =>
          /\ pc = "exited"
          /\ ~Happened("enter generate_commits_json")
          /\ ~Happened("enter generate_index_html")
          /\ files["commits.json"] = prevFiles["commits.json"]
          /\ files["index.html"] = prevFiles["index.html"]

C2_Witness ==
    /\ pc = "exited"
    /\ status = 0
    /\ stdout = <<Generated("release.json", -1),
                  Generated("commits.json", Len(env.history)),
                  Generated("index.html", -1)>>

\* C3 (as claimed): the diagnostic exit happens only in a repository that has
\* no tag, and a run outside any repository ends with a traceback.
C3_OnlyNoTagsIsFatal ==
    /\ (NoTagsMsg \in {stderr[i] : i \in 1..Len(stderr)}) => env.kind = "no_tags"
    /\ (env.kind = "not_a_repo" /\ pc = "exited") =>
          stderr = <<Traceback("CalledProcessError")>>

\* C4: once release.json is written, its tag_name is the repository's tag; its
\* version is the tag without its first character when the tag starts with "v"
\* and is longer than that, and the tag itself when it does not start with "v".
C4_VersionStripsOneV ==
    ReleaseWritten =>
        LET data == files["release.json"].data
            t == env.tag
        IN  /\ StringField(data, "tag_name") = t
            /\ (Len(t) >= 2 /\ t[1] = "v") =>
                  StringField(data, "version") = SubSeq(t, 2, Len(t))
            /\ (t[1] # "v") => StringField(data, "version") = t

C4_Witness ==
    /\ ReleaseWritten
    /\ env.tag = <<"v", "v", "1">>
    /\ StringField(files["release.json"].data, "version") = <<"v", "1">>

\* C5: once commits.json is written for a history of K commits and a count N,
\* it holds min(K, N) entries, and entry i is the i-th newest commit: its
\* abbreviated hash and its subject.
C5_CommitBound ==
    CommitsWritten =>
        LET K == Len(env.history)
            n == IF K < count THEN K ELSE count
            data == files["commits.json"].data
        IN  /\ Cardinality({i \in 1..Len(data) : data[i] = "sha"}) = n
            /\ Cardinality({i \in 1..Len(data) : data[i] = "subject"}) = n
            /\ Len(commits) = n
            /\ \A i \in 1..n :
                  /\ commits[i].sha = AbbrevHash(K - i + 1)
                  /\ commits[i].subject = env.history[i]
            /\ data = JsonDump(CommitsJson(commits))

C5_Witness ==
    /\ pc = "returned"
    /\ Len(env.history) = 3
    /\ count = 2
    /\ Len(commits) = 2

\* C6: when a run that follows another run on the same repository has ended,
\* release.json and commits.json are what the run before left; and after a
\* complete run each of the two files holds the document of that run alone,
\* whatever the file held before.
C6_SecondRunSameFiles ==
    /\ (run >= 2 /\ pc = "exited") =>
          /\ files["release.json"] = prevFiles["release.json"]
          /\ files["commits.json"] = prevFiles["commits.json"]
    /\ (pc = "exited" /\ status = 0) =>
          /\ files["release.json"].data = JsonDump(ReleaseInfoNow)
          /\ files["commits.json"].data = JsonDump(CommitsJson(commits))

C6_Witness ==
    /\ run = 2
    /\ pc = "exited"
    /\ status = 0
    /\ files["release.json"].exists
    /\ files["release.json"] # Stale
    /\ Len(env.history) = 2

\* C7: once release.json is written, download_urls has the four platform keys
\* and each URL, and checksums_url, is the fixed prefix, the repository's tag
\* as it is, and the fixed file name.
UrlPrefix == "https://github.com/tgruben-circuit/percy/releases/download/"
Platforms == <<"darwin_amd64", "darwin_arm64", "linux_amd64", "linux_arm64">>

C7_UrlsUseTag ==
    ReleaseWritten =>
        LET data == files["release.json"].data
        IN  /\ data = JsonDump(ReleaseInfoNow)
            /\ MemberKeys(ReleaseInfoNow, "download_urls") = Platforms
            /\ \A i \in 1..Len(Platforms) :
                  StringField(data, Platforms[i])
                      = <<UrlPrefix>> \o env.tag \o <<"/percy_" \o Platforms[i]>>
            /\ StringField(data, "checksums_url")
                  = <<UrlPrefix>> \o env.tag \o <<"/checksums.txt">>

C7_Witness ==
    /\ ReleaseWritten
    /\ env.tag = <<"v", "1">>
    /\ StringField(files["release.json"].data, "linux_amd64")
          = <<UrlPrefix, "v", "1", "/percy_linux_amd64">>

LineFeeds(t) == {i \in 1..Len(t) : t[i] = LF}
LineCount(t) == Cardinality(LineFeeds(t)) + 1
LineAt(t, k) ==
    LET before == {i \in LineFeeds(t) : Cardinality({j \in LineFeeds(t) : j <= i}) = k - 1}
        after == {i \in LineFeeds(t) : Cardinality({j \in LineFeeds(t) : j <= i}) = k}
        from == IF before = {} THEN 1 ELSE (CHOOSE i \in before : TRUE) + 1
        to == IF after = {} THEN Len(t) ELSE (CHOOSE i \in after : TRUE) - 1
    IN  SubSeq(t, from, to)

\* The entries a text stands for: its lines that hold the delimiter, in order,
\* each cut at its first delimiter.
RECURSIVE TrimLeft(_)
TrimLeft(t) == IF t # <<>> /\ Head(t) \in Whitespace THEN TrimLeft(Tail(t)) ELSE t
RECURSIVE TrimRight(_)
TrimRight(t) ==
    IF t # <<>> /\ t[Len(t)] \in Whitespace THEN TrimRight(SubSeq(t, 1, Len(t) - 1)) ELSE t

WithDelimiter(t) == {k \in 1..LineCount(t) : \E i \in 1..Len(LineAt(t, k)) : LineAt(t, k)[i] = NUL}
EntriesOf(t) ==
    LET ks == WithDelimiter(t)
        Kth(n) == CHOOSE k \in ks : Cardinality({j \in ks : j <= k}) = n
        Cut(l) ==
            LET p == CHOOSE i \in 1..Len(l) : l[i] = NUL /\ \A j \in 1..(i - 1) : l[j] # NUL
            IN  [sha |-> SubSeq(l, 1, p - 1), subject |-> SubSeq(l, p + 1, Len(l))]
    IN  [n \in 1..Cardinality(ks) |-> Cut(LineAt(t, Kth(n)))]

\* C9 (as claimed): the entries written are the entries of the lines of the
\* log output as git log returned it.
C9_EntriesOfOutputLines ==
    (pc = "returned") =>
        /\ commits = EntriesOf(output)
        /\ files["commits.json"].data = JsonDump(CommitsJson(EntriesOf(output)))

\* C9 (amended): the entries written are the entries of the lines of the log
\* output once the whitespace at both ends of the whole output is removed; no
\* line makes the run end in an error.
C9_EntriesOfStrippedLines ==
    /\ pc # "exited"
    /\ status = -1
    /\ (pc = "returned") =>
          LET t == TrimRight(TrimLeft(output))
          IN  /\ commits = EntriesOf(t)
              /\ files["commits.json"].data = JsonDump(CommitsJson(EntriesOf(t)))
              /\ stdout = <<Generated("commits.json", Cardinality(WithDelimiter(t)))>>

C9_Witness ==
    /\ pc = "returned"
    /\ output = <<SP, NUL, NUL, LF, "a">>
    /\ commits = <<[sha |-> <<>>, subject |-> <<NUL>>]>>

\* C10: release.json is written only after describe, rev-list, show and
\* for-each-ref, in that order, all succeeded; and a run that ends in the
\* failure of git log leaves release.json as this run wrote it, and
\* commits.json and index.html as they were before the run.
C10_NoRollback ==
    /\ ReleaseWritten =>
          /\ SubSeq(trace, 1, 6) = <<"enter generate_release_json", "git describe",
                                     "git rev-list", "git show", "git for-each-ref",
                                     "write release.json">>
          /\ env.kind = "tagged"
          /\ env.damaged \notin {"describe", "rev-list", "show", "for-each-ref"}
          /\ latest_tag = env.tag
          /\ latest_commit = FullHash(1)
          /\ latest_commit_time = CommitTime(1)
          /\ published_at = TagDate(1)
    /\ (pc = "exited" /\ trace # <<>> /\ trace[Len(trace)] = "git log") =>
          /\ status = 1
          /\ ReleaseWritten
          /\ files["release.json"] = [exists |-> TRUE, data |-> JsonDump(ReleaseInfoNow)]
          /\ files["commits.json"] = prevFiles["commits.json"]
          /\ files["index.html"] = prevFiles["index.html"]

C10_Witness ==
    /\ pc = "exited"
    /\ run = 1
    /\ env.damaged = "log"
    /\ trace[Len(trace)] = "git log"
    /\ prevFiles["release.json"] = Stale
    /\ files["release.json"] # Stale
    /\ files["commits.json"] = Stale
    /\ files["index.html"] = Stale

====
